---- MODULE Spec2Model ----
(***************************************************************************)
(* Model of translator/parser.py (miguendes/n2t-vm): the line normaliser,  *)
(* ByteCodeInst.from_string, ByteCodeInst.to_asm with its builders, and    *)
(* parse, together with the Hack machine that gives the emitted assembly   *)
(* its meaning.                                                            *)
(*                                                                         *)
(* Representation of Python values:                                        *)
(*   - a str is a sequence of atoms. An atom is a lexical chunk: one       *)
(*     whitespace character, the comment marker "//", one digit, a sign,   *)
(*     a punctuation mark of the assembly ("@", "(", ")", "=", ";", ".")   *)
(*     or a whole word ("push", "SP", "M-1");                              *)
(*   - a text with newlines is the sequence of its lines (what             *)
(*     str.split("\n") returns, which is never empty);                     *)
(*   - Optional[T] is a sequence of length 0 (None) or 1;                  *)
(*   - an exception is a result record with ok = FALSE and its class name. *)
(***************************************************************************)
EXTENDS Integers, Sequences, FiniteSets, TLC

\* ------------------------------------------------------------------ bounds
\* most tokens on a line handed to from_string
MaxTokens == 4
\* most digits in a value token
MaxDigits == 2
\* random.randint(0, 1_000_000) is drawn from 0..MaxSuffix
MaxSuffix == 1
\* most lines in a source unit handed to parse
MaxLines == 3
\* most atoms on the one line of a raw text made of arbitrary atoms
MaxAtoms == 4

\* ---------------------------------------------------------------- strings
None == <<>>
Some(x) == <<x>>

Whitespace == {" ", "\t"}

NEW_LINE_TOKEN == "\n"

COMMENT_TOKEN == "//"

Digits == {"0", "1", "2", "3", "4", "5", "6", "7", "8", "9"}

DigitVal(d) ==
  CASE d = "0" -> 0 [] d = "1" -> 1 [] d = "2" -> 2 [] d = "3" -> 3
    [] d = "4" -> 4 [] d = "5" -> 5 [] d = "6" -> 6 [] d = "7" -> 7
    [] d = "8" -> 8 [] d = "9" -> 9

DigitChar(n) ==
  CASE n = 0 -> "0" [] n = 1 -> "1" [] n = 2 -> "2" [] n = 3 -> "3"
    [] n = 4 -> "4" [] n = 5 -> "5" [] n = 6 -> "6" [] n = 7 -> "7"
    [] n = 8 -> "8" [] n = 9 -> "9"

\* str.strip(): drop leading and trailing whitespace
RECURSIVE LStrip(_)
LStrip(s) ==
  IF s # <<>> /\ Head(s) \in Whitespace THEN LStrip(Tail(s)) ELSE s

RECURSIVE RStrip(_)
RStrip(s) ==
  IF s # <<>> /\ s[Len(s)] \in Whitespace
  THEN RStrip(SubSeq(s, 1, Len(s) - 1))
  ELSE s

Strip(s) == RStrip(LStrip(s))

\* length of the run of non-whitespace atoms that starts s
RECURSIVE WordLen(_)
WordLen(s) ==
  IF s = <<>> \/ Head(s) \in Whitespace THEN 0 ELSE 1 + WordLen(Tail(s))

\* str.split(): the maximal runs of non-whitespace, no empty strings
RECURSIVE SplitWs(_)
SplitWs(s) ==
  IF s = <<>> THEN <<>>
  ELSE IF Head(s) \in Whitespace THEN SplitWs(Tail(s))
  ELSE LET n == WordLen(s)
       IN  <<SubSeq(s, 1, n)>> \o SplitWs(SubSeq(s, n + 1, Len(s)))

\* " ".join(tokens)
RECURSIVE JoinSp(_)
JoinSp(toks) ==
  IF toks = <<>> THEN <<>>
  ELSE IF Len(toks) = 1 THEN toks[1]
  ELSE toks[1] \o <<" ">> \o JoinSp(Tail(toks))

\* str.index(COMMENT_TOKEN): position of the first comment marker, 0 if none
RECURSIVE IndexOfComment(_)
IndexOfComment(s) ==
  IF s = <<>> THEN 0
  ELSE IF Head(s) = COMMENT_TOKEN THEN 1
  ELSE LET r == IndexOfComment(Tail(s)) IN IF r = 0 THEN 0 ELSE r + 1

\* str(int)
RECURSIVE StrNat(_)
StrNat(n) ==
  IF n < 10 THEN <<DigitChar(n)>>
  ELSE StrNat(n \div 10) \o <<DigitChar(n % 10)>>

StrInt(n) == IF n < 0 THEN <<"-">> \o StrNat(0 - n) ELSE StrNat(n)

\* the number a non-empty run of digits denotes
RECURSIVE DecimalValue(_)
DecimalValue(ds) ==
  IF ds = <<>> THEN 0
  ELSE 10 * DecimalValue(SubSeq(ds, 1, Len(ds) - 1)) + DigitVal(ds[Len(ds)])

AllDigits(s) == s # <<>> /\ \A i \in 1..Len(s) : s[i] \in Digits

\* int() refusing a sign
IntParse_unsigned(tok) ==
  IF AllDigits(tok)
  THEN [ok |-> TRUE, value |-> DecimalValue(tok)]
  ELSE [ok |-> FALSE, value |-> 0]

\* int(token): optional sign, then digits; anything else is a ValueError
IntParse(tok) ==
  LET signed == tok # <<>> /\ Head(tok) \in {"-", "+"}
      body   == IF signed THEN Tail(tok) ELSE tok
  IN  IF AllDigits(body)
      THEN [ok |-> TRUE,
            value |-> IF signed /\ Head(tok) = "-"
                      THEN 0 - DecimalValue(body)
                      ELSE DecimalValue(body)]
      ELSE [ok |-> FALSE, value |-> 0]

\* --------------------------------------------------------- line normaliser
\* re.split(r"\s+", s): the fields between the maximal runs of whitespace,
\* an empty field where s starts or ends with whitespace
RECURSIVE ReSplit(_)
ReSplit(s) ==
  LET n == WordLen(s)
  IN  IF n = Len(s) THEN <<s>>
      ELSE <<SubSeq(s, 1, n)>> \o ReSplit(LStrip(SubSeq(s, n + 1, Len(s))))

\* the loop body of clean without the strip that follows the comment cut
CleanLine_nostrip(raw) ==
  LET l1 == Strip(raw)
      c  == IndexOfComment(l1)
      l2 == IF c > 0 THEN SubSeq(l1, 1, c - 1) ELSE l1
  IN  IF l2 = <<>> THEN <<>> ELSE JoinSp(ReSplit(l2))

\* one pass of the loop body of clean: the cleaned line, or <<>> when the
\* line is dropped
CleanLine(raw) ==
  LET l1 == Strip(raw)
      c  == IndexOfComment(l1)
      l2 == IF c > 0 THEN Strip(SubSeq(l1, 1, c - 1)) ELSE l1
  IN  IF l2 = <<>> THEN <<>> ELSE JoinSp(ReSplit(l2))

\* clean(ins): the generator's output as a list
RECURSIVE clean(_)
clean(ins) ==
  IF ins = <<>> THEN <<>>
  ELSE LET line == CleanLine(Head(ins))
       IN  IF line = <<>> THEN clean(Tail(ins))
           ELSE <<line>> \o clean(Tail(ins))

\* "\n".join(lines), as the text it denotes: joining nothing gives the
\* empty string, which is one empty line
JoinLines(lines) == IF lines = <<>> THEN << <<>> >> ELSE lines

LowerAtom(a) ==
  CASE a = "PUSH" -> "push" [] a = "POP" -> "pop" [] a = "ADD" -> "add"
    [] a = "SUB" -> "sub" [] a = "NEG" -> "neg" [] a = "EQ" -> "eq"
    [] a = "GT" -> "gt" [] a = "LT" -> "lt" [] a = "AND" -> "and"
    [] a = "OR" -> "or" [] a = "NOT" -> "not"
    [] a = "CONSTANT" -> "constant" [] a = "LOCAL" -> "local"
    [] a = "ARGUMENT" -> "argument" [] a = "THIS" -> "this"
    [] a = "THAT" -> "that" [] a = "TEMP" -> "temp"
    [] a = "STATIC" -> "static" [] a = "POINTER" -> "pointer"
    [] OTHER -> a

Lower(text) ==
  [i \in 1..Len(text) |-> [j \in 1..Len(text[i]) |-> LowerAtom(text[i][j])]]

clean_instructions(ins, to_lower) ==
  LET inst == JoinLines(clean(ins))
  IN  IF to_lower THEN Lower(inst) ELSE inst

\* ------------------------------------------------------ Command / Segment
ZeroOperand == {"ADD", "SUB", "NEG", "EQ", "GT", "LT", "AND", "OR", "NOT"}

Command == {"PUSH", "POP"} \cup ZeroOperand

Segment ==
  {"CONSTANT", "LCL", "ARG", "THIS", "THAT", "TEMP", "STATIC", "POINTER"}

Result(ok, error, value) == [ok |-> ok, error |-> error, value |-> value]

CommandFromString(raw_cmd) ==
  CASE raw_cmd = <<"push">> -> Result(TRUE, "", "PUSH")
    [] raw_cmd = <<"pop">>  -> Result(TRUE, "", "POP")
    [] raw_cmd = <<"add">>  -> Result(TRUE, "", "ADD")
    [] raw_cmd = <<"sub">>  -> Result(TRUE, "", "SUB")
    [] raw_cmd = <<"neg">>  -> Result(TRUE, "", "NEG")
    [] raw_cmd = <<"eq">>   -> Result(TRUE, "", "EQ")
    [] raw_cmd = <<"lt">>   -> Result(TRUE, "", "LT")
    [] raw_cmd = <<"gt">>   -> Result(TRUE, "", "GT")
    [] raw_cmd = <<"not">>  -> Result(TRUE, "", "NOT")
    [] raw_cmd = <<"and">>  -> Result(TRUE, "", "AND")
    [] raw_cmd = <<"or">>   -> Result(TRUE, "", "OR")
    [] OTHER -> Result(FALSE, "InvalidCommandException", "")

SegmentFromString(raw_seg) ==
  CASE raw_seg = <<"constant">> -> Result(TRUE, "", "CONSTANT")
    [] raw_seg = <<"argument">> -> Result(TRUE, "", "ARG")
    [] raw_seg = <<"local">>    -> Result(TRUE, "", "LCL")
    [] raw_seg = <<"this">>     -> Result(TRUE, "", "THIS")
    [] raw_seg = <<"that">>     -> Result(TRUE, "", "THAT")
    [] raw_seg = <<"temp">>     -> Result(TRUE, "", "TEMP")
    [] raw_seg = <<"static">>   -> Result(TRUE, "", "STATIC")
    [] raw_seg = <<"pointer">>  -> Result(TRUE, "", "POINTER")
    [] OTHER -> Result(FALSE, "InvalidSegmentException", "")

\* Segment.__str__: the member's name
SegmentStr(seg) == <<seg>>

\* ------------------------------------------------------------ ByteCodeInst
\* the dataclass; ok = FALSE stands for a raised exception
ByteCodeInst(label_suffix, cmd, segment, value, static_label) ==
  [ok |-> TRUE, error |-> "", label_suffix |-> label_suffix, cmd |-> cmd,
   segment |-> segment, value |-> value, static_label |-> static_label]

Raised(error) ==
  [ok |-> FALSE, error |-> error, label_suffix |-> <<>>, cmd |-> "",
   segment |-> None, value |-> None, static_label |-> None]

\* from_string once label_suffix is a str: `rnd` is the outcome of
\* random.randint, used only when the caller passed None
from_string(line, label_suffix, static_label, rnd) ==
  LET suffix == IF label_suffix = None THEN StrInt(rnd) ELSE label_suffix[1]
      tokens == SplitWs(line)
  IN  IF Len(tokens) # 3
      THEN \* the unpacking raised ValueError
           IF tokens = <<>> THEN Raised("IndexError")
           ELSE LET c == CommandFromString(tokens[1])
                IN  IF c.ok
                    THEN ByteCodeInst(suffix, c.value, None, None, None)
                    ELSE Raised(c.error)
      ELSE LET c == CommandFromString(tokens[1])
               s == SegmentFromString(tokens[2])
               v == IntParse(tokens[3])
           IN  IF ~c.ok THEN Raised(c.error)
               ELSE IF ~s.ok THEN Raised(s.error)
               ELSE IF ~v.ok THEN Raised("ValueError")
               ELSE ByteCodeInst(suffix, c.value, Some(s.value),
                                 Some(v.value), static_label)


\* ----------------------------------------------------------------- builders
\* A builder returns the dedented text of its template: a leading and a
\* trailing empty line, comment lines and inline comments included.
RECURSIVE Words(_)
Words(ws) == IF ws = <<>> THEN <<>> ELSE <<" ", Head(ws)>> \o Words(Tail(ws))

\* a comment: the marker, then the words, each after one space
Cmt(ws) == <<COMMENT_TOKEN>> \o Words(ws)

\* f"{x}" of an Optional[str]
StrOpt(x) == IF x = None THEN <<"None">> ELSE x[1]

_build_push_constant(self) ==
  << <<>>,
     <<"@">> \o StrInt(self.value[1]),
     <<"D", "=", "A">>,
     <<"@", "SP">>,
     <<"A", "=", "M">>,
     <<"M", "=", "D">>,
     <<"@", "SP">>,
     <<"M", "=", "M+1">>,
     <<>> >>

_build_add(self) ==
  << <<>>,
     <<"@", "SP">>,
     <<"M", "=", "M-1">>,
     <<"A", "=", "M">>,
     <<"D", "=", "M">>,
     <<"@", "SP">>,
     <<"M", "=", "M-1">>,
     <<"A", "=", "M">>,
     <<"M", "=", "M+D">>,
     <<"@", "SP">>,
     <<"M", "=", "M+1">>,
     <<>> >>

\* _build_sub with the operands of the subtraction exchanged
_build_sub_reversed(self) ==
  << <<>>,
     <<"@", "SP">>,
     <<"M", "=", "M-1">>,
     <<"A", "=", "M">>,
     <<"D", "=", "M">>,
     <<"@", "SP">>,
     <<"M", "=", "M-1">>,
     <<"A", "=", "M">>,
     <<"M", "=", "D-M">>,
     <<"@", "SP">>,
     <<"M", "=", "M+1">>,
     <<>> >>

_build_sub(self) ==
  << <<>>,
     <<"@", "SP">>,
     <<"M", "=", "M-1">>,
     <<"A", "=", "M">>,
     <<"D", "=", "M">>,
     <<"@", "SP">>,
     <<"M", "=", "M-1">>,
     <<"A", "=", "M">>,
     <<"M", "=", "M-D">>,
     <<"@", "SP">>,
     <<"M", "=", "M+1">>,
     <<>> >>

\* _build_eq without the jump over the else block
_build_eq_fallthrough(self) ==
  << <<>>,
     Cmt(<<"SP--">>),
     <<"@", "SP">>,
     <<"M", "=", "M-1">>,
     Cmt(<<"D", "=", "*SP">>),
     <<"A", "=", "M">>,
     <<"D", "=", "M">>,
     Cmt(<<"SP--">>),
     <<"@", "SP">>,
     <<"M", "=", "M-1">>,
     Cmt(<<"D", "=", "*SP", "-", "D", "<-->", "x", "-", "y">>),
     <<"A", "=", "M">>,
     <<"D", "=", "M-D">>,
     <<"M", "=", "D">>,
     <<>>,
     Cmt(<<"if", "x", "==", "0">>),
     <<"@", "IS_EQ">> \o self.label_suffix,
     <<"D", ";", "JEQ">>,
     Cmt(<<"else">>),
     <<"@", "ELSE">> \o self.label_suffix,
     <<"D", ";", "JNE">>,
     <<>>,
     <<"(", "IS_EQ">> \o self.label_suffix \o <<")">>,
     Cmt(<<"True", "in", "Hack", "ASM", "is", "-1">>),
     <<"@", "SP">>,
     <<"A", "=", "M">>,
     <<"M", "=", "-1">>,
     Cmt(<<"SP++">>),
     <<"@", "SP">>,
     <<"M", "=", "M+1">>,
     <<>>,
     <<"(", "ELSE">> \o self.label_suffix \o <<")">>,
     Cmt(<<"False", "in", "Hack", "ASM", "is", "0">>),
     <<"@", "SP">>,
     <<"A", "=", "M">>,
     <<"M", "=", "0">>,
     Cmt(<<"SP++">>),
     <<"@", "SP">>,
     <<"M", "=", "M+1">>,
     <<>>,
     <<"(", "END_IF">> \o self.label_suffix \o <<")">>,
     <<"D", "=", "0">>,
     <<>> >>

\* _build_eq: the text after dedent, line by line
_build_eq(self) ==
  << <<>>,
     Cmt(<<"SP--">>),
     <<"@", "SP">>,
     <<"M", "=", "M-1">>,
     Cmt(<<"D", "=", "*SP">>),
     <<"A", "=", "M">>,
     <<"D", "=", "M">>,
     Cmt(<<"SP--">>),
     <<"@", "SP">>,
     <<"M", "=", "M-1">>,
     Cmt(<<"D", "=", "*SP", "-", "D", "<-->", "x", "-", "y">>),
     <<"A", "=", "M">>,
     <<"D", "=", "M-D">>,
     <<"M", "=", "D">>,
     <<>>,
     Cmt(<<"if", "x", "==", "0">>),
     <<"@", "IS_EQ">> \o self.label_suffix,
     <<"D", ";", "JEQ">>,
     Cmt(<<"else">>),
     <<"@", "ELSE">> \o self.label_suffix,
     <<"D", ";", "JNE">>,
     <<>>,
     <<"(", "IS_EQ">> \o self.label_suffix \o <<")">>,
     Cmt(<<"True", "in", "Hack", "ASM", "is", "-1">>),
     <<"@", "SP">>,
     <<"A", "=", "M">>,
     <<"M", "=", "-1">>,
     Cmt(<<"SP++">>),
     <<"@", "SP">>,
     <<"M", "=", "M+1">>,
     <<"@", "END_IF">> \o self.label_suffix,
     <<"0", ";", "JEQ">>,
     <<>>,
     <<"(", "ELSE">> \o self.label_suffix \o <<")">>,
     Cmt(<<"False", "in", "Hack", "ASM", "is", "0">>),
     <<"@", "SP">>,
     <<"A", "=", "M">>,
     <<"M", "=", "0">>,
     Cmt(<<"SP++">>),
     <<"@", "SP">>,
     <<"M", "=", "M+1">>,
     <<>>,
     <<"(", "END_IF">> \o self.label_suffix \o <<")">>,
     <<"D", "=", "0">>,
     <<>> >>

\* _build_lt: the text after dedent, line by line
_build_lt(self) ==
  << <<>>,
     Cmt(<<"SP--">>),
     <<"@", "SP">>,
     <<"M", "=", "M-1">>,
     Cmt(<<"D", "=", "*SP">>),
     <<"A", "=", "M">>,
     <<"D", "=", "M">>,
     Cmt(<<"SP--">>),
     <<"@", "SP">>,
     <<"M", "=", "M-1">>,
     Cmt(<<"D", "=", "*SP", "-", "D", "<-->", "x", "-", "y">>),
     <<"A", "=", "M">>,
     <<"D", "=", "M-D">>,
     <<"M", "=", "D">>,
     <<>>,
     Cmt(<<"if", "x", "<", "0">>),
     <<"@", "IS_LESS_THAN">> \o self.label_suffix,
     <<"D", ";", "JLT">>,
     Cmt(<<"else">>),
     <<"@", "ELSE">> \o self.label_suffix,
     <<"D", ";", "JGE">>,
     <<>>,
     <<"(", "IS_LESS_THAN">> \o self.label_suffix \o <<")">>,
     Cmt(<<"True", "in", "Hack", "ASM", "is", "-1">>),
     <<"@", "SP">>,
     <<"A", "=", "M">>,
     <<"M", "=", "-1">>,
     Cmt(<<"SP++">>),
     <<"@", "SP">>,
     <<"M", "=", "M+1">>,
     <<"@", "END_IF">> \o self.label_suffix,
     <<"0", ";", "JEQ">>,
     <<>>,
     <<"(", "ELSE">> \o self.label_suffix \o <<")">>,
     Cmt(<<"False", "in", "Hack", "ASM", "is", "0">>),
     <<"@", "SP">>,
     <<"A", "=", "M">>,
     <<"M", "=", "0">>,
     Cmt(<<"SP++">>),
     <<"@", "SP">>,
     <<"M", "=", "M+1">>,
     <<>>,
     <<"(", "END_IF">> \o self.label_suffix \o <<")">>,
     <<"D", "=", "0">>,
     <<>> >>

\* _build_gt: the text after dedent, line by line
_build_gt(self) ==
  << <<>>,
     Cmt(<<"SP--">>),
     <<"@", "SP">>,
     <<"M", "=", "M-1">>,
     Cmt(<<"D", "=", "*SP">>),
     <<"A", "=", "M">>,
     <<"D", "=", "M">>,
     Cmt(<<"SP--">>),
     <<"@", "SP">>,
     <<"M", "=", "M-1">>,
     Cmt(<<"D", "=", "*SP", "-", "D", "<-->", "x", "-", "y">>),
     <<"A", "=", "M">>,
     <<"D", "=", "M-D">>,
     <<"M", "=", "D">>,
     <<>>,
     Cmt(<<"if", "x", ">", "0">>),
     <<"@", "IS_GT">> \o self.label_suffix,
     <<"D", ";", "JGT">>,
     Cmt(<<"else">>),
     <<"@", "ELSE">> \o self.label_suffix,
     <<"D", ";", "JLE">>,
     <<>>,
     <<"(", "IS_GT">> \o self.label_suffix \o <<")">>,
     Cmt(<<"True", "in", "Hack", "ASM", "is", "-1">>),
     <<"@", "SP">>,
     <<"A", "=", "M">>,
     <<"M", "=", "-1">>,
     Cmt(<<"SP++">>),
     <<"@", "SP">>,
     <<"M", "=", "M+1">>,
     <<"@", "END_IF">> \o self.label_suffix,
     <<"0", ";", "JEQ">>,
     <<>>,
     <<"(", "ELSE">> \o self.label_suffix \o <<")">>,
     Cmt(<<"False", "in", "Hack", "ASM", "is", "0">>),
     <<"@", "SP">>,
     <<"A", "=", "M">>,
     <<"M", "=", "0">>,
     Cmt(<<"SP++">>),
     <<"@", "SP">>,
     <<"M", "=", "M+1">>,
     <<>>,
     <<"(", "END_IF">> \o self.label_suffix \o <<")">>,
     <<"D", "=", "0">>,
     <<>> >>

_build_not(self) ==
  << <<>>,
     Cmt(<<"SP--">>),
     <<"@", "SP">>,
     <<"M", "=", "M-1">>,
     Cmt(<<"D", "=", "*SP">>),
     <<"A", "=", "M">>,
     <<"D", "=", "M">>,
     Cmt(<<"*SP", "=", "!D">>),
     <<"@", "SP">>,
     <<"A", "=", "M">>,
     <<"M", "=", "!D">>,
     <<"@", "SP">>,
     <<"M", "=", "M+1">>,
     <<>> >>

_build_neg(self) ==
  << <<>>,
     Cmt(<<"SP--">>),
     <<"@", "SP">>,
     <<"M", "=", "M-1">>,
     Cmt(<<"D", "=", "*SP">>),
     <<"A", "=", "M">>,
     <<"D", "=", "M">>,
     Cmt(<<"*SP", "=", "0", "-", "D">>),
     <<"@", "SP">>,
     <<"A", "=", "M">>,
     <<"M", "=", "-D">>,
     <<"@", "SP">>,
     <<"M", "=", "M+1">>,
     <<>> >>

_build_and(self) ==
  << <<>>,
     <<"@", "SP">>,
     <<"M", "=", "M-1">>,
     <<"A", "=", "M">>,
     <<"D", "=", "M">>,
     <<"@", "SP">>,
     <<"M", "=", "M-1">>,
     <<"A", "=", "M">>,
     <<"M", "=", "M&D">>,
     <<"@", "SP">>,
     <<"M", "=", "M+1">>,
     <<>> >>

_build_or(self) ==
  << <<>>,
     <<"@", "SP">>,
     <<"M", "=", "M-1">>,
     <<"A", "=", "M">>,
     <<"D", "=", "M">>,
     <<"@", "SP">>,
     <<"M", "=", "M-1">>,
     <<"A", "=", "M">>,
     <<"M", "=", "M|D">>,
     <<"@", "SP">>,
     <<"M", "=", "M+1">>,
     <<>> >>

_build_push_segment(self) ==
  << <<>>,
     Cmt(<<"D", "=", "offset">>),
     <<"@">> \o StrInt(self.value[1]),
     <<"D", "=", "A">>,
     Cmt(<<"D", "=", "D", "+", "ARG">>),
     <<"@">> \o SegmentStr(self.segment[1]),
     <<"D", "=", "D+M">>,
     Cmt(<<"*SP", "=", "*D">>),
     <<"A", "=", "D">>,
     <<"D", "=", "M">>,
     <<"@", "SP">>,
     <<"A", "=", "M">>,
     <<"M", "=", "D">>,
     Cmt(<<"SP++">>),
     <<"@", "SP">>,
     <<"M", "=", "M+1">>,
     <<>> >>

\* _build_pop_segment without the decrement of SP
_build_pop_segment_nodec(self) ==
  << <<>>,
     Cmt(<<"D", "=", "offset">>),
     <<"@">> \o StrInt(self.value[1]),
     <<"D", "=", "A">>,
     Cmt(<<"D", "=", "offset", "+", "segmentPointer">>),
     <<"@">> \o SegmentStr(self.segment[1]),
     <<"D", "=", "D+M">>,
     Cmt(<<"SP--">>),
     <<"@", "SP">>,
     <<"A", "=", "M">>,
     <<"D", "=", "D+M", " ", " ">> \o Cmt(<<"addr", "=", "addr", "+", "RAM[SP]">>),
     <<"A", "=", "D-M", " ", " ">> \o Cmt(<<"A", "=", "addr", "-", "RAM[SP]">>) \o <<" ">>,
     <<"M", "=", "D-A", " ", " ">> \o Cmt(<<"RAM[A]", "=", "addr", "-", "A">>),
     <<>> >>

_build_pop_segment(self) ==
  << <<>>,
     Cmt(<<"D", "=", "offset">>),
     <<"@">> \o StrInt(self.value[1]),
     <<"D", "=", "A">>,
     Cmt(<<"D", "=", "offset", "+", "segmentPointer">>),
     <<"@">> \o SegmentStr(self.segment[1]),
     <<"D", "=", "D+M">>,
     Cmt(<<"SP--">>),
     <<"@", "SP">>,
     <<"M", "=", "M-1">>,
     <<"A", "=", "M">>,
     <<"D", "=", "D+M", " ", " ">> \o Cmt(<<"addr", "=", "addr", "+", "RAM[SP]">>),
     <<"A", "=", "D-M", " ", " ">> \o Cmt(<<"A", "=", "addr", "-", "RAM[SP]">>) \o <<" ">>,
     <<"M", "=", "D-A", " ", " ">> \o Cmt(<<"RAM[A]", "=", "addr", "-", "A">>),
     <<>> >>

_build_push_temp(self) ==
  << <<>>,
     Cmt(<<"i", "=", "offset">>),
     <<"@">> \o StrInt(self.value[1]),
     <<"D", "=", "A">>,
     Cmt(<<"addr", "=", "i", "+", "5">>),
     <<"@", "5">>,
     <<"D", "=", "D+A">>,
     Cmt(<<"*SP", "=", "*addr">>),
     <<"A", "=", "D">>,
     <<"D", "=", "M">>,
     <<"@", "SP">>,
     <<"A", "=", "M">>,
     <<"M", "=", "D">>,
     Cmt(<<"SP++">>),
     <<"@", "SP">>,
     <<"M", "=", "M+1">>,
     <<>> >>

_build_pop_temp(self) ==
  << <<>>,
     <<"@">> \o StrInt(self.value[1]),
     <<"D", "=", "A", " ">> \o Cmt(<<"D", "=", "i">>),
     <<"@", "5">>,
     <<"D", "=", "D+A", " ">> \o Cmt(<<"addr", "=", "5", "+", "i">>),
     <<"@", "SP">>,
     <<"M", "=", "M-1">>,
     <<"A", "=", "M">>,
     <<"D", "=", "D+M", " ", " ">> \o Cmt(<<"addr", "=", "addr", "+", "RAM[SP]">>),
     <<"A", "=", "D-M", " ", " ">> \o Cmt(<<"A", "=", "addr", "-", "RAM[SP]">>) \o <<" ">>,
     <<"M", "=", "D-A", " ", " ">> \o Cmt(<<"RAM[A]", "=", "addr", "-", "A">>),
     <<>> >>

_build_push_static(self) ==
  << <<>>,
     <<"@">> \o StrOpt(self.static_label) \o <<".">> \o StrInt(self.value[1]),
     <<"D", "=", "M">>,
     <<"@", "SP">>,
     <<"A", "=", "M">>,
     <<"M", "=", "D">>,
     Cmt(<<"SP++">>),
     <<"@", "SP">>,
     <<"M", "=", "M+1">>,
     <<>> >>

_build_pop_static(self) ==
  << <<>>,
     Cmt(<<"SP--">>),
     <<"@", "SP">>,
     <<"M", "=", "M-1">>,
     Cmt(<<"temp", "=", "*SP">>),
     <<"A", "=", "M">>,
     <<"D", "=", "M">>,
     Cmt(<<"*static", "=", "temp">>),
     <<"@">> \o StrOpt(self.static_label) \o <<".">> \o StrInt(self.value[1]),
     <<"M", "=", "D">>,
     <<>> >>

\* _get_pointer taking every non-zero value for THAT
_get_pointer_truthy(self) ==
  IF self.value = Some(0) THEN Result(TRUE, "", <<"THIS">>)
  ELSE Result(TRUE, "", <<"THAT">>)

\* _get_pointer: the label, or InvalidSegmentException for a value that is
\* no key of {1: "THAT", 0: "THIS"}
_get_pointer(self) ==
  IF self.value = Some(1) THEN Result(TRUE, "", <<"THAT">>)
  ELSE IF self.value = Some(0) THEN Result(TRUE, "", <<"THIS">>)
  ELSE Result(FALSE, "InvalidSegmentException", <<>>)

_build_push_pointer(self) ==
  << <<>>,
     Cmt(<<"temp", "=", "THIS">>),
     <<"@">> \o _get_pointer(self).value,
     <<"D", "=", "M">>,
     Cmt(<<"*SP", "=", "temp">>),
     <<"@", "SP">>,
     <<"A", "=", "M">>,
     <<"M", "=", "D">>,
     Cmt(<<"SP++">>),
     <<"@", "SP">>,
     <<"M", "=", "M+1">>,
     <<>> >>

_build_pop_pointer(self) ==
  << <<>>,
     Cmt(<<"SP--">>),
     <<"@", "SP">>,
     <<"M", "=", "M-1">>,
     Cmt(<<"temp", "=", "*SP">>),
     <<"A", "=", "M">>,
     <<"D", "=", "M">>,
     Cmt(<<"pointer", "=", "temp">>),
     <<"@">> \o _get_pointer(self).value,
     <<"M", "=", "D">>,
     <<>> >>

\* a handler's outcome: the text it built, or the exception it raised
Built(text) == [ok |-> TRUE, error |-> "", text |-> text]

Failed(error) == [ok |-> FALSE, error |-> error, text |-> <<>>]

_handle_temp(self) ==
  IF self.cmd = "PUSH" THEN Built(_build_push_temp(self))
  ELSE Built(_build_pop_temp(self))

_handle_static(self) ==
  IF self.cmd = "PUSH" THEN Built(_build_push_static(self))
  ELSE Built(_build_pop_static(self))

_handle_pointer(self) ==
  IF ~_get_pointer(self).ok THEN Failed(_get_pointer(self).error)
  ELSE IF self.cmd = "PUSH" THEN Built(_build_push_pointer(self))
  ELSE Built(_build_pop_pointer(self))

_handle_generic_segment(self) ==
  IF self.cmd = "PUSH" THEN Built(_build_push_segment(self))
  ELSE Built(_build_pop_segment(self))

\* the keys of the dict _handlers_map returns
HandlerKeys ==
  {"CONSTANT", "TEMP", "STATIC", "POINTER", "LCL", "ARG", "THIS", "THAT",
   "ADD", "SUB", "EQ", "GT", "NOT", "NEG", "AND", "OR"}

\* _handlers_map()[key](), for a key of HandlerKeys
_handlers_map(self, key) ==
  CASE key = "CONSTANT" -> Built(_build_push_constant(self))
    [] key = "TEMP"     -> _handle_temp(self)
    [] key = "STATIC"   -> _handle_static(self)
    [] key = "POINTER"  -> _handle_pointer(self)
    [] key = "LCL"      -> _handle_generic_segment(self)
    [] key = "ARG"      -> _handle_generic_segment(self)
    [] key = "THIS"     -> _handle_generic_segment(self)
    [] key = "THAT"     -> _handle_generic_segment(self)
    [] key = "ADD"      -> Built(_build_add(self))
    [] key = "SUB"      -> Built(_build_sub(self))
    [] key = "EQ"       -> Built(_build_eq(self))
    [] key = "GT"       -> Built(_build_gt(self))
    [] key = "NOT"      -> Built(_build_not(self))
    [] key = "NEG"      -> Built(_build_neg(self))
    [] key = "AND"      -> Built(_build_and(self))
    [] key = "OR"       -> Built(_build_or(self))

\* what to_asm returns for an outcome of a handler
Cleaned(r) ==
  IF r.ok THEN Built(clean_instructions(r.text, FALSE)) ELSE r

\* to_asm: the segment's handler when the segment is a key, else the
\* command's, else ValueError("Unsupported command.")
to_asm(self) ==
  IF self.segment # None /\ self.segment[1] \in HandlerKeys
  THEN Cleaned(_handlers_map(self, self.segment[1]))
  ELSE IF self.cmd \in HandlerKeys
  THEN Cleaned(_handlers_map(self, self.cmd))
  ELSE Failed("ValueError")


\* parse(ins, filename), one yield at a time: the instruction the generator
\* yields for the next line of ins.split("\n")
parse_yield(line, filename, rnd) == from_string(line, None, Some(filename), rnd)

\* binding the arguments of a call parse(*args): ins and filename are
\* both required, so any other number of arguments is a TypeError raised
\* by the call itself; otherwise the call returns a generator
parse(args) ==
  IF Len(args) # 2
  THEN [ok |-> FALSE, error |-> "TypeError", ins |-> <<>>, filename |-> <<>>]
  ELSE [ok |-> TRUE, error |-> "", ins |-> args[1], filename |-> args[2]]

\* "\n".join([byte_code.to_asm() for byte_code in byte_codes]) over the
\* lines the generator has left; rnds are the outcomes of random.randint
RECURSIVE JoinAsm(_, _, _)
JoinAsm(lines, filename, rnds) ==
  LET i == parse_yield(Head(lines), filename, Head(rnds))
      a == to_asm(i)
      r == JoinAsm(Tail(lines), filename, Tail(rnds))
  IN  IF ~i.ok THEN Failed(i.error)
      ELSE IF Len(lines) = 1 THEN a
      ELSE IF ~r.ok THEN r
      ELSE IF ~a.ok THEN a
      ELSE Built(a.text \o r.text)

\* translate(inst) of translator/__init__.py
translate(inst, rnds) ==
  LET cleaned_inst == clean_instructions(inst, TRUE)
      byte_codes   == parse(<<cleaned_inst>>)
  IN  IF ~byte_codes.ok THEN Failed(byte_codes.error)
      ELSE JoinAsm(byte_codes.ins, byte_codes.filename, rnds)

\* ------------------------------------------------------------ Hack machine
\* The target of the emitted assembly: 16-bit two's-complement words, the
\* registers A and D, M = RAM[A], a 15-bit address bus.
Word == -32768..32767

Wrap(n) == ((n + 32768) % 65536) - 32768

Unsigned(w) == (w + 65536) % 65536

Addr(a) == Unsigned(a) % 32768

RECURSIVE BitAnd(_, _, _)
BitAnd(a, b, n) ==
  IF n = 0 THEN 0
  ELSE (a % 2) * (b % 2) + 2 * BitAnd(a \div 2, b \div 2, n - 1)

RECURSIVE BitOr(_, _, _)
BitOr(a, b, n) ==
  IF n = 0 THEN 0
  ELSE (IF a % 2 = 1 \/ b % 2 = 1 THEN 1 ELSE 0)
       + 2 * BitOr(a \div 2, b \div 2, n - 1)

And16(x, y) == Wrap(BitAnd(Unsigned(x), Unsigned(y), 16))

Or16(x, y) == Wrap(BitOr(Unsigned(x), Unsigned(y), 16))

Not16(x) == Wrap(65535 - Unsigned(x))

\* a cell that was never written holds 0
Read(mem, a) == IF a \in DOMAIN mem THEN mem[a] ELSE 0

Write(mem, a, v) ==
  [c \in DOMAIN mem \cup {a} |-> IF c = a THEN v ELSE mem[c]]

IsLabel(l) == l # <<>> /\ Head(l) = "("

LabelSym(l) == SubSeq(l, 2, Len(l) - 1)

\* the assembler's first pass: the instructions, labels taken out
RECURSIVE Rom(_)
Rom(prog) ==
  IF prog = <<>> THEN <<>>
  ELSE IF IsLabel(Head(prog)) THEN Rom(Tail(prog))
  ELSE <<Head(prog)>> \o Rom(Tail(prog))

\* ROM address of the instruction that follows line i of prog
RomIndex(prog, i) == Len(Rom(SubSeq(prog, 1, i)))

LabelLines(prog, sym) ==
  {i \in 1..Len(prog) : IsLabel(prog[i]) /\ LabelSym(prog[i]) = sym}

Predefined == {<<"SP">>, <<"LCL">>, <<"ARG">>, <<"THIS">>, <<"THAT">>}

PredefinedAddr(sym) ==
  CASE sym = <<"SP">> -> 0 [] sym = <<"LCL">> -> 1 [] sym = <<"ARG">> -> 2
    [] sym = <<"THIS">> -> 3 [] sym = <<"THAT">> -> 4

\* the value @sym loads: a decimal constant, a predefined symbol, a label's
\* ROM address, or the first variable slot
SymbolValue(prog, sym) ==
  IF AllDigits(sym) THEN DecimalValue(sym)
  ELSE IF sym \in Predefined THEN PredefinedAddr(sym)
  ELSE IF LabelLines(prog, sym) # {}
  THEN RomIndex(prog, CHOOSE i \in LabelLines(prog, sym) :
                        \A j \in LabelLines(prog, sym) : i <= j)
  ELSE 16

\* the ALU
Comp(c, a, d, m) ==
  CASE c = "0"   -> 0
    [] c = "-1"  -> -1
    [] c = "A"   -> a
    [] c = "D"   -> d
    [] c = "M"   -> m
    [] c = "!D"  -> Not16(d)
    [] c = "-D"  -> Wrap(0 - d)
    [] c = "M+1" -> Wrap(m + 1)
    [] c = "M-1" -> Wrap(m - 1)
    [] c = "M+D" -> Wrap(m + d)
    [] c = "D+M" -> Wrap(d + m)
    [] c = "D+A" -> Wrap(d + a)
    [] c = "M-D" -> Wrap(m - d)
    [] c = "D-M" -> Wrap(d - m)
    [] c = "D-A" -> Wrap(d - a)
    [] c = "M&D" -> And16(m, d)
    [] c = "M|D" -> Or16(m, d)

Jumps(j, v) ==
  CASE j = "JEQ" -> v = 0
    [] j = "JNE" -> v # 0
    [] j = "JLT" -> v < 0
    [] j = "JGE" -> v >= 0
    [] j = "JGT" -> v > 0
    [] j = "JLE" -> v <= 0

\* an assembler accepts @n only for 0 <= n < 2^15, and no symbol starts
\* with a sign or a digit
Assemblable(prog) ==
  \A i \in 1..Len(prog) :
    (prog[i] # <<>> /\ Head(prog[i]) = "@") =>
      LET sym == Tail(prog[i])
      IN  /\ sym # <<>>
          /\ Head(sym) \notin {"-", "+"}
          /\ (Head(sym) \in Digits => AllDigits(sym) /\ DecimalValue(sym) < 32768)

\* ------------------------------------------------------------------ inputs
CmdTokens ==
  {<<"push">>, <<"pop">>, <<"add">>, <<"sub">>, <<"neg">>, <<"eq">>, <<"gt">>,
   <<"lt">>, <<"and">>, <<"or">>, <<"not">>, <<"frobnicate">>}

SegTokens ==
  {<<"constant">>, <<"local">>, <<"argument">>, <<"this">>, <<"that">>,
   <<"temp">>, <<"static">>, <<"pointer">>, <<"heap">>}

DigitSample == {"0", "1", "2"}

DigitStrings == UNION {[1..k -> DigitSample] : k \in 1..MaxDigits}

ValTokens ==
  {sg \o ds : sg \in {<<>>, <<"-">>, <<"+">>}, ds \in DigitStrings}
    \cup {<<"x">>}

ExtraTokens == {<<"add">>}

Extras == UNION {[1..k -> ExtraTokens] : k \in 1..(MaxTokens - 3)}

TokenLists ==
  {<<>>}
    \cup {<<c>> : c \in CmdTokens}
    \cup {<<c, s>> : c \in CmdTokens, s \in SegTokens}
    \cup {<<c, s, v>> : c \in CmdTokens, s \in SegTokens, v \in ValTokens}
    \cup {<<c, s, v>> \o e :
            c \in CmdTokens, s \in SegTokens, v \in ValTokens, e \in Extras}

SuffixArgs == {None, Some(<<"4", "2">>)}

StaticArgs == {None, Some(<<"Test">>)}

\* 16-bit operands: the extremes, the values around zero
Sample == {-32768, -32767, -1, 0, 1, 2, 32766, 32767}

SpSample == {256, 257}

BaseSample == {0, 1, 255, 300}

\* lines of a source unit handed to parse
UnitLines ==
  {<<"eq">>, <<"gt">>, <<"lt">>, <<"add">>,
   <<"push", " ", "constant", " ", "1">>, <<"frobnicate">>}

Units == UNION {[1..k -> UnitLines] : k \in 1..MaxLines}

\* atoms of the raw one-line texts
Atoms == {" ", "\t", "//", "add", "EQ"}

AtomLines == UNION {[1..k -> Atoms] : k \in 0..MaxAtoms}

\* lines of the raw multi-line texts: blank, whitespace-only, comment-only,
\* and instructions with padding, upper case and a trailing comment
RawLines ==
  {<<>>,
   <<"\t", " ">>,
   <<"//", "this", " ", "is", " ", "a", " ", "comment">>,
   <<" ", "//", " ", "add">>,
   <<"add">>,
   <<"\t", "PUSH", " ", " ", "CONSTANT", "\t", "1", " ">>,
   <<"eq", " ", "//", " ", "compare">>,
   <<"lt">>}

SourceTexts ==
  {<<l>> : l \in AtomLines}
    \cup UNION {[1..k -> RawLines] : k \in 1..MaxLines}

\* ------------------------------------------------------------------- state
VARIABLES
  stage,    \* "idle", "parsed", "asm", "loaded", "run", "halt", "parsing", "unit",
            \* "cleaned", "translated"
  line,     \* the line handed to from_string
  inst,     \* what from_string returned or raised
  asm,      \* what to_asm returned or raised
  job,      \* the instruction whose snippet the machine runs
  program,  \* the snippet the machine runs
  pc,       \* ROM address of the next instruction
  A,        \* machine registers
  D,
  ram,      \* the cells written or initialised so far
  ram0,     \* the memory the run started from
  visited,  \* ROM addresses executed so far
  unit,     \* parse: the lines not yet consumed
  insts,    \* parse: the instructions yielded so far
  failure,  \* parse: the exception that ended the generator, "" if none
  source,   \* the raw text handed to clean_instructions or translate
  cleaned,  \* what clean_instructions returned, None before it ran
  fold,     \* the to_lower argument of that call
  kept,     \* how many lines clean yielded for source
  translated \* what translate returned or raised

vars ==
  <<stage, line, inst, asm, job, program, pc, A, D, ram, ram0, visited,
    unit, insts, failure, source, cleaned, fold, kept,
    translated>>

NoInst == Raised("")

NoAsm == Failed("")

NoJob == [cmd |-> "", segment |-> None, value |-> None]

Init ==
  /\ stage = "idle"
  /\ line = <<>>
  /\ inst = NoInst
  /\ asm = NoAsm
  /\ job = NoJob
  /\ program = <<>>
  /\ pc = 0
  /\ A = 0
  /\ D = 0
  /\ ram = <<>>
  /\ ram0 = <<>>
  /\ visited = {}
  /\ unit = <<>>
  /\ insts = <<>>
  /\ failure = ""
  /\ source = <<>>
  /\ cleaned = None
  /\ fold = FALSE
  /\ kept = 0
  /\ translated = NoAsm

machine == <<job, program, pc, A, D, ram, ram0, visited>>

parser == <<unit, insts, failure>>

pipeline == <<source, cleaned, fold, kept, translated>>

\* ByteCodeInst.from_string(line, label_suffix, static_label)
FromString ==
  /\ stage = "idle"
  /\ \E toks \in TokenLists, ls \in SuffixArgs, sl \in StaticArgs,
        rnd \in 0..MaxSuffix :
       /\ line' = JoinSp(toks)
       /\ inst' = from_string(JoinSp(toks), ls, sl, rnd)
  /\ stage' = "parsed"
  /\ UNCHANGED <<asm, machine, parser, pipeline>>

\* inst.to_asm()
ToAsm ==
  /\ stage = "parsed"
  /\ inst.ok
  /\ asm' = to_asm(inst)
  /\ stage' = "asm"
  /\ UNCHANGED <<line, inst, machine, parser, pipeline>>

\* the memory a run starts from: SP, the four base registers, x below y on
\* top of the stack
StartRam(sp, x, y, lcl, arg, this, that) ==
  Write(Write(
    [a \in 0..4 |-> CASE a = 0 -> sp [] a = 1 -> lcl [] a = 2 -> arg
                      [] a = 3 -> this [] a = 4 -> that],
    Addr(sp - 2), x), Addr(sp - 1), y)

JobOf(i) == [cmd |-> i.cmd, segment |-> i.segment, value |-> i.value]

\* assemble a snippet and load it into the ROM
Install(j, prog) ==
  /\ Assemblable(prog)
  /\ job' = j
  /\ program' = prog
  /\ stage' = "loaded"
  /\ line' = <<>>
  /\ inst' = NoInst
  /\ asm' = NoAsm
  /\ UNCHANGED <<pc, A, D, ram, ram0, visited, parser, pipeline>>

\* load the snippet to_asm returned for a zero-operand command, a push or
\* a pop
Load ==
  /\ stage = "asm"
  /\ asm.ok
  /\ \/ inst.segment = None
     \/ inst.segment # None /\ inst.cmd \in {"PUSH", "POP"}
  /\ Install(JobOf(inst), asm.text)

\* load the snippet of _build_lt, which to_asm never returns
LoadLt ==
  /\ stage = "parsed"
  /\ inst.ok
  /\ inst.cmd = "LT"
  /\ inst.segment = None
  /\ Install(JobOf(inst), clean_instructions(_build_lt(inst), FALSE))

\* reset the machine on a memory: x and y on the stack for a zero-operand
\* command, y on the stack and a base register for a push or a pop
Boot ==
  /\ stage = "loaded"
  /\ \E sp \in SpSample, x \in Sample, y \in Sample, b \in BaseSample :
       /\ job.segment # None => x = 2
       /\ (job.segment = None
             \/ job.segment[1] \notin {"LCL", "ARG", "THIS", "THAT"}) => b = 300
       /\ ram0' = StartRam(sp, x, y,
                           IF job.segment = Some("LCL") THEN b ELSE 300,
                           IF job.segment = Some("ARG") THEN b ELSE 400,
                           IF job.segment = Some("THIS") THEN b ELSE 3000,
                           IF job.segment = Some("THAT") THEN b ELSE 3010)
  /\ ram' = ram0'
  /\ pc' = 0
  /\ A' = 0
  /\ D' = 0
  /\ visited' = {}
  /\ stage' = "run"
  /\ UNCHANGED <<line, inst, asm, job, program, parser, pipeline>>

\* one instruction of the machine
Step ==
  /\ stage = "run"
  /\ LET rom == Rom(program)
     IN  IF pc >= Len(rom)
         THEN /\ stage' = "halt"
              /\ UNCHANGED <<pc, A, D, ram, visited>>
         ELSE LET ins == rom[pc + 1]
                  m   == Read(ram, Addr(A))
              IN  /\ stage' = "run"
                  /\ visited' = visited \cup {pc}
                  /\ IF Head(ins) = "@"
                     THEN /\ A' = SymbolValue(program, Tail(ins))
                          /\ pc' = pc + 1
                          /\ UNCHANGED <<D, ram>>
                     ELSE IF ins[2] = "="
                     THEN LET v == Comp(ins[3], A, D, m)
                          IN  /\ A' = IF ins[1] = "A" THEN v ELSE A
                              /\ D' = IF ins[1] = "D" THEN v ELSE D
                              /\ ram' = IF ins[1] = "M"
                                        THEN Write(ram, Addr(A), v)
                                        ELSE ram
                              /\ pc' = pc + 1
                     ELSE LET v == Comp(ins[1], A, D, m)
                          IN  /\ pc' = IF Jumps(ins[3], v) THEN A ELSE pc + 1
                              /\ UNCHANGED <<A, D, ram>>
  /\ UNCHANGED <<line, inst, asm, job, program, ram0, parser, pipeline>>

\* parse(ins, filename): the call, which creates the generator
ParseStart ==
  /\ stage = "idle"
  /\ \E u \in Units : unit' = u
  /\ insts' = <<>>
  /\ failure' = ""
  /\ stage' = "parsing"
  /\ UNCHANGED <<line, inst, asm, machine, pipeline>>

\* the generator's next step: yield the instruction of the next line, or
\* raise what from_string raised, or end
ParseNext ==
  /\ stage = "parsing"
  /\ IF unit = <<>>
     THEN /\ stage' = "unit"
          /\ UNCHANGED <<unit, insts, failure>>
     ELSE \E rnd \in 0..MaxSuffix :
            LET i == parse_yield(Head(unit), <<"Test">>, rnd)
            IN  IF i.ok
                THEN /\ insts' = Append(insts, i)
                     /\ unit' = Tail(unit)
                     /\ stage' = "parsing"
                     /\ failure' = ""
                ELSE /\ failure' = i.error
                     /\ stage' = "unit"
                     /\ UNCHANGED <<unit, insts>>
  /\ UNCHANGED <<line, inst, asm, machine, pipeline>>

\* clean_instructions(ins, to_lower)
Clean ==
  /\ stage = "idle"
  /\ \E text \in SourceTexts, f \in BOOLEAN :
       /\ source' = text
       /\ fold' = f
       /\ cleaned' = Some(clean_instructions(text, f))
       /\ kept' = Len(clean(text))
  /\ stage' = "cleaned"
  /\ UNCHANGED <<line, inst, asm, machine, parser, translated>>

\* parse(cleaned, filename) on the text clean_instructions returned: the
\* call, which creates the generator over cleaned.split("\n")
ParseCleaned ==
  /\ stage = "cleaned"
  /\ parse(<<cleaned[1], <<"Test">>>>).ok
  /\ unit' = parse(<<cleaned[1], <<"Test">>>>).ins
  /\ insts' = <<>>
  /\ failure' = ""
  /\ source' = <<>>
  /\ fold' = FALSE
  /\ stage' = "parsing"
  /\ UNCHANGED <<line, inst, asm, machine, cleaned, kept, translated>>

\* translate(inst)
Translate ==
  /\ stage = "idle"
  /\ \E text \in SourceTexts :
       \E rnds \in [1..Len(clean_instructions(text, TRUE)) -> 0..MaxSuffix] :
         /\ source' = text
         /\ translated' = translate(text, rnds)
  /\ stage' = "translated"
  /\ UNCHANGED <<line, inst, asm, machine, parser, cleaned, fold, kept>>

Next ==
  \/ FromString
  \/ ToAsm
  \/ Load
  \/ LoadLt
  \/ Boot
  \/ Step
  \/ ParseStart
  \/ ParseNext
  \/ Clean
  \/ ParseCleaned
  \/ Translate

Spec == Init /\ [][Next]_vars


\* ------------------------------------------------------------------ claims
PushPop == {"PUSH", "POP"}

Comparison == {"EQ", "GT", "LT"}

Binary == {"ADD", "SUB", "AND", "OR"} \cup Comparison

Unary == {"NEG", "NOT"}

\* the symbols the A-instructions of a snippet address
ASymbols(text) ==
  {Tail(text[i]) : i \in {k \in 1..Len(text) : text[k] # <<>> /\ Head(text[k]) = "@"}}

\* the run that has halted was the snippet of a zero-operand command
RanZeroOperand == stage = "halt" /\ job.segment = None

Sp0 == ram0[0]

\* the operands the run started from: y on top of the stack, x below it
X0 == ram0[Sp0 - 2]

Y0 == ram0[Sp0 - 1]

\* bit k of a word
Bit(w, k) == (Unsigned(w) \div (2 ^ k)) % 2

\* C1: to_asm returns a snippet for every instruction parsed from a
\* single-token line naming a zero-operand command, and the snippet of lt
\* uses the labels IS_LESS_THAN<s>, ELSE<s> and END_IF<s>.
C1_ToAsmTotalOnZeroOperand ==
  (stage = "asm" /\ Len(SplitWs(line)) = 1 /\ inst.cmd \in ZeroOperand) =>
    /\ asm.ok
    /\ inst.cmd = "LT" =>
         {<<"IS_LESS_THAN">> \o inst.label_suffix,
          <<"ELSE">> \o inst.label_suffix,
          <<"END_IF">> \o inst.label_suffix}
           = {LabelSym(asm.text[i]) :
                i \in {k \in 1..Len(asm.text) : IsLabel(asm.text[k])}}

\* C2: to_asm on (Pop, Constant, n) fails with the unsupported-instruction
\* error, and among the instructions of the Constant segment only Push
\* produces assembly.
C2_PopConstantUnsupported ==
  (stage = "asm" /\ inst.segment = Some("CONSTANT")) =>
    /\ inst.cmd = "POP" => ~asm.ok /\ asm.error = "ValueError"
    /\ asm.ok => inst.cmd = "PUSH"

\* C3: from_string raises, and returns no instruction, for every line whose
\* token count is neither 1 nor 3.
C3_TokenCountRejected ==
  (stage = "parsed" /\ Len(SplitWs(line)) \notin {1, 3}) => ~inst.ok

\* C4: for Push and Pop on the Pointer segment, to_asm raises
\* InvalidSegmentException exactly when value is not 0 or 1, and otherwise
\* the snippet addresses THIS for 0 and THAT for 1 (besides SP).
C4_PointerBounds ==
  (stage = "asm" /\ inst.cmd \in PushPop /\ inst.segment = Some("POINTER")) =>
    /\ ~asm.ok <=> inst.value[1] \notin {0, 1}
    /\ ~asm.ok => asm.error = "InvalidSegmentException"
    /\ asm.ok =>
         ASymbols(asm.text) \ {<<"SP">>}
           = {IF inst.value[1] = 0 THEN <<"THIS">> ELSE <<"THAT">>}

\* C4's case: push pointer with a negative value was refused by to_asm
C4_Witness ==
  /\ stage = "asm"
  /\ inst.cmd = "PUSH"
  /\ inst.segment = Some("POINTER")
  /\ inst.value[1] < 0
  /\ ~asm.ok

\* C5: no two comparison instructions that parse yields for one source unit
\* carry the same label_suffix.
C5_UniqueLabelSuffix ==
  \A i, j \in DOMAIN insts :
    (i < j /\ insts[i].cmd \in Comparison /\ insts[j].cmd \in Comparison) =>
      insts[i].label_suffix # insts[j].label_suffix

\* C6: when the snippet of a comparison finishes, the cell that held x holds
\* -1 exactly when x == y (Eq), x > y (Gt) or x < y (Lt) as signed 16-bit
\* integers, and 0 otherwise.
C6_ComparisonResult ==
  (RanZeroOperand /\ job.cmd \in Comparison) =>
    ram[Sp0 - 2] =
      IF \/ job.cmd = "EQ" /\ X0 = Y0
         \/ job.cmd = "GT" /\ X0 > Y0
         \/ job.cmd = "LT" /\ X0 < Y0
      THEN -1
      ELSE 0

RomAddrs(ins) ==
  {i - 1 : i \in {k \in 1..Len(Rom(program)) : Rom(program)[k] = ins}}

\* C8: a zero-operand snippet run to its last line leaves SP one below its
\* initial value for a binary command and equal to it for a unary one, on
\* the true and on the false branch of a comparison, and a run never
\* executes both the true block and the else block.
C8_StackDepth ==
  RanZeroOperand =>
    /\ pc = Len(Rom(program))
    /\ (pc - 1) \in visited
    /\ job.cmd \in Binary => ram[0] = Sp0 - 1
    /\ job.cmd \in Unary => ram[0] = Sp0
    /\ job.cmd \in Comparison =>
         ~ /\ RomAddrs(<<"M", "=", "-1">>) \cap visited # {}
           /\ RomAddrs(<<"M", "=", "0">>) \cap visited # {}

\* C8's case: eq has run on equal operands, through its true block
C8_Witness ==
  /\ RanZeroOperand
  /\ job.cmd = "EQ"
  /\ X0 = Y0
  /\ RomAddrs(<<"M", "=", "-1">>) \cap visited # {}
  /\ ram[0] = Sp0 - 1

\* the snippet that has halted was that of pop on local, argument, this,
\* that or temp
RanPop ==
  /\ stage = "halt"
  /\ job.cmd = "POP"
  /\ job.segment # None
  /\ job.segment[1] \in {"LCL", "ARG", "THIS", "THAT", "TEMP"}

\* the address pop writes: 5 + i for temp, RAM[base register] + i otherwise
PopTarget ==
  IF job.segment[1] = "TEMP" THEN 5 + job.value[1]
  ELSE Addr(Wrap(ram0[PredefinedAddr(job.segment)] + job.value[1]))

\* C9: pop on local, argument, this, that or temp decrements SP by one,
\* stores the value that was on top of the stack in the target cell, and
\* leaves every other cell as it was, whenever the target is not the
\* stack-pointer cell.
C9_PopFrame ==
  (RanPop /\ PopTarget # 0) =>
    /\ ram[0] = Sp0 - 1
    /\ ram[PopTarget] = Y0
    /\ \A a \in DOMAIN ram \ {0, PopTarget} : ram[a] = Read(ram0, a)
    /\ \A a \in DOMAIN ram0 : a \in DOMAIN ram

\* C9's case: pop local 2 has stored a popped -32768
C9_Witness ==
  /\ RanPop
  /\ job.segment = Some("LCL")
  /\ job.value = Some(2)
  /\ PopTarget # 0
  /\ Y0 = -32768
  /\ ram[PopTarget] = -32768

\* the value token of the three-token line handed to from_string, without
\* its sign
ValueDigits ==
  LET t == SplitWs(line)[3]
  IN  IF t # <<>> /\ Head(t) \in {"-", "+"} THEN Tail(t) ELSE t

\* C10 as stated: a Push or Pop instruction parsed from a three-token line
\* has a non-negative value (a negative value token is rejected).
C10_ValueNonNegative ==
  (stage = "parsed" /\ Len(SplitWs(line)) = 3 /\ inst.ok
     /\ inst.cmd \in PushPop) =>
    inst.value # None /\ inst.value[1] >= 0

\* C10 amended: a three-token line whose first tokens name a command and a
\* segment and whose value token is a run of digits with an optional sign
\* is accepted, and the instruction's value is the integer that token
\* denotes, negative when the sign is a minus.
C10_ValueSignedInteger ==
  (stage = "parsed" /\ Len(SplitWs(line)) = 3) =>
    LET toks == SplitWs(line)
    IN  /\ (/\ toks[1] \in CmdTokens \ {<<"frobnicate">>}
            /\ toks[2] \in SegTokens \ {<<"heap">>}
            /\ AllDigits(ValueDigits)) => inst.ok
        /\ inst.ok =>
             /\ inst.value # None
             /\ inst.value[1] =
                  (IF Head(toks[3]) = "-" THEN -1 ELSE 1)
                    * DecimalValue(ValueDigits)

\* C10's case: push pointer -1 was parsed into an instruction of value -1
C10_Witness ==
  /\ stage = "parsed"
  /\ SplitWs(line) = <<<<"push">>, <<"pointer">>, <<"-", "1">>>>
  /\ inst.ok
  /\ inst.value = Some(-1)

\* ------------------------------------------------------- line normaliser

\* what a raw line holds before its comment marker
BeforeComment(l) ==
  IF \E j \in 1..Len(l) : l[j] = COMMENT_TOKEN
  THEN SubSeq(l, 1, (CHOOSE j \in 1..Len(l) :
                       /\ l[j] = COMMENT_TOKEN
                       /\ \A h \in 1..(j - 1) : l[h] # COMMENT_TOKEN) - 1)
  ELSE l

\* the raw lines that are neither blank, whitespace-only nor comment-only
NonDropped(text) ==
  {i \in 1..Len(text) :
     \E j \in 1..Len(BeforeComment(text[i])) :
       BeforeComment(text[i])[j] \notin Whitespace}

\* the k-th of them, in source order
NthNonDropped(text, k) ==
  CHOOSE i \in NonDropped(text) :
    Cardinality({h \in NonDropped(text) : h <= i}) = k

\* no edge whitespace, no comment marker, tokens one space apart
Normalised(l) ==
  /\ l # <<>>
  /\ l[1] \notin Whitespace
  /\ l[Len(l)] \notin Whitespace
  /\ \A j \in 1..Len(l) : l[j] # COMMENT_TOKEN /\ l[j] # "\t"
  /\ \A j \in 1..(Len(l) - 1) :
       ~(l[j] \in Whitespace /\ l[j + 1] \in Whitespace)

\* C11: for every input text, every line clean_instructions returns is
\* non-empty, has no leading or trailing whitespace, holds no comment
\* marker and separates its tokens by exactly one space; the returned
\* lines are the non-dropped input lines in their original order, with
\* no empty line between or after them, and the result is the empty
\* string when every input line is blank or comment-only.
C11_CleanedLines ==
  stage = "cleaned" =>
    LET out == cleaned[1]
    IN  IF NonDropped(source) = {}
        THEN out = <<<<>>>>
        ELSE /\ Len(out) = Cardinality(NonDropped(source))
             /\ \A k \in 1..Len(out) :
                  LET toks ==
                        SplitWs(Strip(BeforeComment(
                          source[NthNonDropped(source, k)])))
                  IN  /\ Normalised(out[k])
                      /\ SplitWs(out[k]) = IF fold THEN Lower(toks) ELSE toks

\* a three-line text whose middle line is dropped and whose kept lines
\* carry padding, a tab run and a trailing comment
C11_Witness ==
  /\ stage = "cleaned"
  /\ Len(source) = 3
  /\ NonDropped(source) = {1, 3}
  /\ Len(cleaned[1]) = 2
  /\ \E j \in 1..Len(source[1]) : source[1][j] = "\t"
  /\ \E j \in 1..Len(source[3]) : source[3][j] = COMMENT_TOKEN

\* ------------------------------------------------------------- translate

\* a text whose every normalised line parses and has a snippet
WellFormed(text) ==
  LET ls == clean_instructions(text, TRUE)
  IN  /\ NonDropped(text) # {}
      /\ \A k \in 1..Len(ls) :
           /\ from_string(ls[k], None, None, 0).ok
           /\ to_asm(from_string(ls[k], None, None, 0)).ok

\* the snippets of lines k..Len(ls), one after the other
RECURSIVE Snippets(_, _, _)
Snippets(ls, k, rnds) ==
  IF k > Len(ls) THEN <<>>
  ELSE to_asm(from_string(ls[k], None, None, rnds[k])).text
         \o Snippets(ls, k + 1, rnds)

\* C12: for every well-formed multi-line source text translate returns the
\* newline-joined snippets of its non-dropped lines in source order, the
\* k-th being to_asm of the instruction parsed from the k-th normalised
\* line, none skipped, duplicated or reordered.
C12_TranslateJoinsSnippets ==
  (stage = "translated" /\ WellFormed(source)) =>
    /\ translated.ok
    /\ \E rnds \in [1..Len(clean_instructions(source, TRUE))
                      -> 0..MaxSuffix] :
         translated.text =
           Snippets(clean_instructions(source, TRUE), 1, rnds)

\* ----------------------------------------------------------------- shape

\* C13: every instruction from_string returns has segment and value both
\* present exactly when its command is Push or Pop, and both absent
\* exactly when its command is one of the nine zero-operand commands.
C13_ShapeInvariant ==
  (stage = "parsed" /\ inst.ok) =>
    /\ (inst.segment # None /\ inst.value # None) <=> inst.cmd \in PushPop
    /\ (inst.segment = None /\ inst.value = None)
         <=> inst.cmd \in ZeroOperand

\* ------------------------------------------------- parse of cleaned text

\* C14: parse applied to the text clean_instructions returned yields as
\* many instructions as clean_instructions kept lines; when every source
\* line was blank, whitespace-only or comment-only it yields none and
\* raises no error.
C14_ParseCountsKeptLines ==
  (stage = "unit" /\ cleaned # None) =>
    /\ kept = 0 => (failure = "" /\ insts = <<>>)
    /\ failure = "" => Len(insts) = kept

====
